---- MODULE Spec2Model ----
(***************************************************************************)
(* The serialization engine of serde-lua-table: the Serializer             *)
(* (src/src/ser/mod.rs), the Compound cursor (src/src/ser/compound.rs) and *)
(* the MapKeySerializer (src/src/ser/map_key_serializer.rs), driven by an  *)
(* arbitrary generic serde traversal driver (a value's Serialize impl).    *)
(*                                                                         *)
(* The engine is re-entrant: serialize_element, serialize_key,             *)
(* serialize_value, serialize_newtype_variant, serialize_some and          *)
(* serialize_newtype_struct call back into the driver (value.serialize).   *)
(* `stack` is the call stack of the engine: one frame per handler that is  *)
(* waiting for such a callback to return, and one frame per live Compound. *)
(* `calls` is the trace of the calls made on the crate::format module      *)
(* (Formatter methods and format_escaped_str_contents), in order.          *)
(***************************************************************************)
EXTENDS Integers, Sequences, FiniteSets, TLC

VARIABLES
    formatter,  \* Serializer.formatter: "CompactFormatter" or "PrettyFormatter"
    stack,      \* call stack, bottom first
    calls,      \* the calls made on the formatter so far
    ret,        \* the Result the driver now in control received last
    last,       \* the engine method the driver called in the last step
    errs,       \* history: the errors that have arisen so far
    steps       \* history: the calls the drivers have made so far

vars == <<formatter, stack, calls, ret, last, errs, steps>>

----------------------------------------------------------------------------
(* Bounds of the model. *)

\* the drivers make at most MaxSteps calls in one run, not counting end()
MaxSteps == 6
\* under SpecKinds they make at most MaxKindSteps
MaxKindSteps == 4
\* under SpecRender, where the content of the sink is read, MaxRenderSteps
MaxRenderSteps == 4
MaxLiveSteps == 3
\* declared lengths (len) and byte strings range over 0..MaxLen
MaxLen == 1
\* at most MaxErrs errors arise in one run (a write the sink refuses, a key the
\* MapKeySerializer rejects, a failure of the driver's own)
MaxErrs == 1
\* a refused write or a failure of the driver's own arises only within the first
\* MaxErrSteps calls of the drivers
MaxErrSteps == 3

(* Option<usize>: None is -1, Some(n) is n. *)
None == 0 - 1
Some(n) == n

(* An unlimited write budget of the sink. *)
Inf == 0 - 1

BoolVals == BOOLEAN
IntVals == {1, 2}
FloatVals == {1}
CharVals == {97}
StrVals == {<<97>>}
VariantNames == {<<86>>}
FieldNames == {<<102>>}
ByteVals == {7}

Lens == 0..MaxLen
OptLens == {None} \cup Lens

RECURSIVE SeqsUpTo(_, _)
SeqsUpTo(S, n) ==
    IF n = 0 THEN {<<>>}
    ELSE LET shorter == SeqsUpTo(S, n - 1)
         IN shorter \cup {Append(q, x) : q \in shorter, x \in S}

BytesVals == SeqsUpTo(ByteVals, MaxLen)

----------------------------------------------------------------------------
(* Formatter calls.  Every record has the same fields: op the method, b    *)
(* its boolean argument (first, or the bool written), n its numeric        *)
(* argument, s its string argument, ok whether the call returned Ok.       *)

Call(op, b, n, s) == [op |-> op, b |-> b, n |-> n, s |-> s, ok |-> TRUE]
Tok(op) == Call(op, FALSE, 0, <<>>)

(* The state threaded through one engine call.  err is the error being     *)
(* returned ("none" while every `?` so far has passed); left is the number *)
(* of formatter calls the sink still accepts in this step; ctl says how    *)
(* the method gave control back: "ret" (it returned), "call" (it is        *)
(* waiting in value.serialize), "compound" (it returned a Compound).       *)

St(b) == [calls |-> calls, stack |-> stack, err |-> "none", left |-> b, ctl |-> "ret"]

\* fault: the call is put in front of what the formatter has received so far
Emit_in_front(st, c) ==
    IF st.err # "none" THEN st
    ELSE [st EXCEPT !.calls = <<c>> \o @]

\* fault: a refused call takes back the call made before it
Emit_rewinding(st, c) ==
    IF st.err # "none" THEN st
    ELSE IF st.left = 0
         THEN [st EXCEPT !.calls = Append(SubSeq(@, 1, Len(@) - 1),
                                          [c EXCEPT !.ok = FALSE]),
                         !.err = "Io"]
         ELSE [st EXCEPT !.calls = Append(@, c),
                         !.left = IF @ = Inf THEN Inf ELSE @ - 1]

\* fault: the Err of a refused call is dropped instead of returned
Emit_unchecked(st, c) ==
    IF st.err # "none" THEN st
    ELSE IF st.left = 0
         THEN [st EXCEPT !.calls = Append(@, [c EXCEPT !.ok = FALSE])]
         ELSE [st EXCEPT !.calls = Append(@, c),
                         !.left = IF @ = Inf THEN Inf ELSE @ - 1]

\* formatter.op(&mut writer, ..)? : a no-op once an earlier `?` has returned
Emit(st, c) ==
    IF st.err # "none" THEN st
    ELSE IF st.left = 0
         THEN [st EXCEPT !.calls = Append(@, [c EXCEPT !.ok = FALSE]),
                         !.err = "Io"]
         ELSE [st EXCEPT !.calls = Append(@, c),
                         !.left = IF @ = Inf THEN Inf ELSE @ - 1]

Fail(st, e) == IF st.err # "none" THEN st ELSE [st EXCEPT !.err = e]

Frame(t, kind, state, entry, via) ==
    [t |-> t, kind |-> kind, state |-> state, entry |-> entry, via |-> via]

TopFrame(st) == st.stack[Len(st.stack)]
Pop(st) == [st EXCEPT !.stack = SubSeq(@, 1, Len(@) - 1)]
\* hand control to a callback or return a Compound, unless a `?` has returned
Push(st, f, ctl) ==
    IF st.err # "none" THEN st
    ELSE [st EXCEPT !.stack = Append(@, f), !.ctl = ctl]
\* fault: the separator state is kept once for all the Compounds of a Serializer
SetState_shared(st, s) ==
    IF st.err # "none" THEN st
    ELSE [st EXCEPT !.stack =
            [i \in 1..Len(st.stack) |->
                IF st.stack[i].t = "Compound"
                THEN [st.stack[i] EXCEPT !.state = s] ELSE st.stack[i]]]

SetState(st, s) ==
    IF st.err # "none" THEN st
    ELSE [st EXCEPT !.stack[Len(st.stack)].state = s]

----------------------------------------------------------------------------
(* Compound (src/src/ser/compound.rs).  A Compound frame holds the field   *)
(* `state`; its `kind` is the serde trait through which the driver holds   *)
(* it (the associated type of the Serializer method that returned it).     *)

Compound_empty(kind) == Frame("Compound", kind, "Empty", FALSE, "ser")

Compound_first(kind) == Frame("Compound", kind, "First", FALSE, "ser")

not_empty(c) == c.state # "Empty"

\* the same Compound seen through another associated type
As(st, kind) ==
    IF st.ctl = "compound"
    THEN [st EXCEPT !.stack[Len(st.stack)].kind = kind]
    ELSE st

----------------------------------------------------------------------------
(* Serializer (src/src/ser/mod.rs): scalar dispatch. *)

\* char::encode_utf8: the one-character string holding that character
encode_utf8(c) == <<c>>

format_escaped_str(st, v) ==
    LET s1 == Emit(st, Tok("begin_string"))
        s2 == Emit(s1, Call("format_escaped_str_contents", FALSE, 0, v))
    IN Emit(s2, Tok("end_string"))

serialize_bool(st, v) == Emit(st, Call("write_bool", v, 0, <<>>))

serialize_i8(st, v) == Emit(st, Call("write_i8", FALSE, v, <<>>))

serialize_i16(st, v) == Emit(st, Call("write_i16", FALSE, v, <<>>))

serialize_i32(st, v) == Emit(st, Call("write_i32", FALSE, v, <<>>))

serialize_i64(st, v) == Emit(st, Call("write_i64", FALSE, v, <<>>))

serialize_u8(st, v) == Emit(st, Call("write_u8", FALSE, v, <<>>))

serialize_u16(st, v) == Emit(st, Call("write_u16", FALSE, v, <<>>))

serialize_u32(st, v) == Emit(st, Call("write_u32", FALSE, v, <<>>))

serialize_u64(st, v) == Emit(st, Call("write_u64", FALSE, v, <<>>))

serialize_f32(st, v) == Emit(st, Call("write_f32", FALSE, v, <<>>))

serialize_f64(st, v) == Emit(st, Call("write_f64", FALSE, v, <<>>))

serialize_str(st, v) == format_escaped_str(st, v)

serialize_char(st, v) == serialize_str(st, encode_utf8(v))

serialize_unit(st) == Emit(st, Tok("write_null"))

serialize_none(st) == serialize_unit(st)

\* fault: a unit struct is written as an empty table
serialize_unit_struct_as_table(st) ==
    Emit(Emit(st, Tok("begin_object")), Tok("end_object"))

serialize_unit_struct(st) == Emit(st, Tok("write_null"))

\* fault: a unit variant is written as a table whose only key is its name
serialize_unit_variant_as_table(st, variant) ==
    LET s1 == Emit(st, Tok("begin_object"))
        s2 == Emit(s1, Call("begin_object_key", TRUE, 0, <<>>))
        s3 == Emit(serialize_str(s2, variant), Tok("end_object_key"))
    IN Emit(s3, Tok("end_object"))

serialize_unit_variant(st, variant) == serialize_str(st, variant)

\* value.serialize(self): the driver is called back with the same Serializer
serialize_some(st) ==
    Push(st, Frame("serialize_some", "-", "-", FALSE, "ser"), "call")

serialize_newtype_struct(st) ==
    Push(st, Frame("serialize_newtype_struct", "-", "-", FALSE, "ser"), "call")

\* up to value.serialize(&mut *self)
serialize_newtype_variant(st, variant) ==
    LET s1 == Emit(st, Tok("begin_object"))
        s2 == Emit(s1, Call("begin_object_key", TRUE, 0, <<>>))
        s3 == serialize_str(s2, variant)
        s4 == Emit(s3, Tok("end_object_key"))
        s5 == Emit(s4, Tok("begin_object_value"))
    IN Push(s5, Frame("serialize_newtype_variant", "-", "-", FALSE, "ser"), "call")

\* fault: the payload's value position is left open
serialize_newtype_variant_ret_unclosed(st) == Emit(st, Tok("end_object"))

\* after value.serialize(&mut *self)? has returned
serialize_newtype_variant_ret(st) ==
    Emit(Emit(st, Tok("end_object_value")), Tok("end_object"))

----------------------------------------------------------------------------
(* Serializer: compound dispatch. *)

\* fault: the declared length is ignored
serialize_seq_len_ignored(st, len) ==
    Push(Emit(st, Tok("begin_array")), Compound_first("SerializeSeq"), "compound")

\* fault: a sequence of known length is closed where it is opened
serialize_seq_known_closed(st, len) ==
    LET s1 == Emit(st, Tok("begin_array"))
    IN IF len # None
       THEN Push(Emit(s1, Tok("end_array")), Compound_empty("SerializeSeq"), "compound")
       ELSE Push(s1, Compound_first("SerializeSeq"), "compound")

serialize_seq(st, len) ==
    LET s1 == Emit(st, Tok("begin_array"))
    IN IF len = Some(0)
       THEN Push(Emit(s1, Tok("end_array")), Compound_empty("SerializeSeq"), "compound")
       ELSE Push(s1, Compound_first("SerializeSeq"), "compound")

serialize_tuple(st, len) == As(serialize_seq(st, Some(len)), "SerializeTuple")

serialize_tuple_struct(st, len) ==
    As(serialize_seq(st, Some(len)), "SerializeTupleStruct")

serialize_tuple_variant(st, variant, len) ==
    LET s1 == Emit(st, Tok("begin_object"))
        s2 == Emit(s1, Call("begin_object_key", TRUE, 0, <<>>))
        s3 == serialize_str(s2, variant)
        s4 == Emit(s3, Tok("end_object_key"))
        s5 == Emit(s4, Tok("begin_object_value"))
    IN As(serialize_seq(s5, Some(len)), "SerializeTupleVariant")

serialize_map(st, len) ==
    LET s1 == Emit(st, Tok("begin_object"))
    IN IF len = Some(0)
       THEN Push(Emit(s1, Tok("end_object")), Compound_empty("SerializeMap"), "compound")
       ELSE Push(s1, Compound_first("SerializeMap"), "compound")

\* fault: the declared number of fields is not passed on
serialize_struct_len_dropped(st, len) == As(serialize_map(st, None), "SerializeStruct")

serialize_struct(st, len) == As(serialize_map(st, Some(len)), "SerializeStruct")

serialize_struct_variant(st, variant, len) ==
    LET s1 == Emit(st, Tok("begin_object"))
        s2 == Emit(s1, Call("begin_object_key", TRUE, 0, <<>>))
        s3 == serialize_str(s2, variant)
        s4 == Emit(s3, Tok("end_object_key"))
        s5 == Emit(s4, Tok("begin_object_value"))
    IN As(serialize_map(s5, Some(len)), "SerializeStructVariant")

----------------------------------------------------------------------------
(* impl SerializeSeq / SerializeTuple / SerializeTupleStruct /             *)
(* SerializeTupleVariant for Compound.  The Compound is the top frame.     *)

\* up to value.serialize(&mut *self.ser)
SerializeSeq_serialize_element(st) ==
    LET c == TopFrame(st)
        s1 == Emit(st, Call("begin_array_value", c.state = "First", 0, <<>>))
        s2 == SetState(s1, "Rest")
    IN Push(s2, Frame("serialize_element", "-", "-", FALSE, "ser"), "call")

\* after value.serialize(&mut *self.ser)? has returned
SerializeSeq_serialize_element_ret(st) == Emit(st, Tok("end_array_value"))

\* fault: end closes whatever the state
SerializeSeq_end_unconditional(st) == Emit(Pop(st), Tok("end_array"))

\* fault: end gives the live Compound back and closes nothing
SerializeSeq_end_suspended(st) == [st EXCEPT !.ctl = "compound"]

\* end(self) consumes the Compound
SerializeSeq_end(st) ==
    LET c == TopFrame(st)
        s0 == Pop(st)
    IN IF not_empty(c) THEN Emit(s0, Tok("end_array")) ELSE s0

SerializeTuple_serialize_element(st) == SerializeSeq_serialize_element(st)

SerializeTuple_end(st) == SerializeSeq_end(st)

SerializeTupleStruct_serialize_field(st) == SerializeSeq_serialize_element(st)

SerializeTupleStruct_end(st) == SerializeSeq_end(st)

SerializeTupleVariant_serialize_field(st) == SerializeSeq_serialize_element(st)

SerializeTupleVariant_end(st) ==
    LET c == TopFrame(st)
        s0 == Pop(st)
        s1 == IF not_empty(c) THEN Emit(s0, Tok("end_array")) ELSE s0
        s2 == Emit(s1, Tok("end_object_value"))
    IN Emit(s2, Tok("end_object"))

----------------------------------------------------------------------------
(* MapKeySerializer (src/src/ser/map_key_serializer.rs). *)

KeyMustBeStringOrNumber == "KeyMustBeStringOrNumber"

\* fault: a bool key is written as a value would be
MapKeySerializer_serialize_bool_delegating(st, v) == serialize_bool(st, v)

MapKeySerializer_serialize_bool(st, v) == Fail(st, KeyMustBeStringOrNumber)

MapKeySerializer_serialize_i8(st, v) == serialize_i8(st, v)

MapKeySerializer_serialize_i16(st, v) == serialize_i16(st, v)

MapKeySerializer_serialize_i32(st, v) == serialize_i32(st, v)

MapKeySerializer_serialize_i64(st, v) == serialize_i64(st, v)

MapKeySerializer_serialize_u8(st, v) == serialize_u8(st, v)

MapKeySerializer_serialize_u16(st, v) == serialize_u16(st, v)

MapKeySerializer_serialize_u32(st, v) == serialize_u32(st, v)

MapKeySerializer_serialize_u64(st, v) == serialize_u64(st, v)

MapKeySerializer_serialize_f32(st, v) == Fail(st, KeyMustBeStringOrNumber)

\* fault: an f64 key is written as a value would be
MapKeySerializer_serialize_f64_delegating(st, v) == serialize_f64(st, v)

MapKeySerializer_serialize_f64(st, v) == Fail(st, KeyMustBeStringOrNumber)

MapKeySerializer_serialize_char(st, v) == serialize_char(st, v)

\* fault: a string key is rejected
MapKeySerializer_serialize_str_rejecting(st, v) == Fail(st, KeyMustBeStringOrNumber)

MapKeySerializer_serialize_str(st, v) == serialize_str(st, v)

MapKeySerializer_serialize_bytes(st, v) == Fail(st, KeyMustBeStringOrNumber)

MapKeySerializer_serialize_none(st) == Fail(st, KeyMustBeStringOrNumber)

MapKeySerializer_serialize_some(st) == Fail(st, KeyMustBeStringOrNumber)

MapKeySerializer_serialize_unit(st) == Fail(st, KeyMustBeStringOrNumber)

MapKeySerializer_serialize_unit_struct(st) == Fail(st, KeyMustBeStringOrNumber)

MapKeySerializer_serialize_unit_variant(st, variant) == serialize_str(st, variant)

\* value.serialize(self): the driver is called back with the same MapKeySerializer
MapKeySerializer_serialize_newtype_struct(st) ==
    Push(st, Frame("serialize_newtype_struct", "-", "-", FALSE, "key"), "call")

MapKeySerializer_serialize_newtype_variant(st, variant) ==
    Fail(st, KeyMustBeStringOrNumber)

MapKeySerializer_serialize_seq(st, len) == Fail(st, KeyMustBeStringOrNumber)

MapKeySerializer_serialize_tuple(st, len) == Fail(st, KeyMustBeStringOrNumber)

MapKeySerializer_serialize_tuple_struct(st, len) == Fail(st, KeyMustBeStringOrNumber)

MapKeySerializer_serialize_tuple_variant(st, variant, len) ==
    Fail(st, KeyMustBeStringOrNumber)

MapKeySerializer_serialize_map(st, len) == Fail(st, KeyMustBeStringOrNumber)

MapKeySerializer_serialize_struct(st, len) == Fail(st, KeyMustBeStringOrNumber)

MapKeySerializer_serialize_struct_variant(st, variant, len) ==
    Fail(st, KeyMustBeStringOrNumber)

----------------------------------------------------------------------------
(* impl SerializeMap / SerializeStruct / SerializeStructVariant for        *)
(* Compound.  The Compound is the top frame.                               *)

\* up to key.serialize(MapKeySerializer::new(self.ser)); entry: called from
\* serialize_entry, which goes on with serialize_value once the key is written
SerializeMap_serialize_key(st, entry) ==
    LET c == TopFrame(st)
        s1 == Emit(st, Call("begin_object_key", c.state = "First", 0, <<>>))
        s2 == SetState(s1, "Rest")
    IN Push(s2, Frame("serialize_key", "-", "-", entry, "key"), "call")

\* fault: a failed key puts the Compound back before its first entry
SerializeMap_serialize_key_ret_rolling_back(st) ==
    IF st.err # "none"
    THEN [st EXCEPT !.stack[Len(st.stack)].state = "First"]
    ELSE Emit(st, Tok("end_object_key"))

\* after key.serialize(..)? has returned
SerializeMap_serialize_key_ret(st) == Emit(st, Tok("end_object_key"))

\* fault: the value call advances the separator state
SerializeMap_serialize_value_advancing(st) ==
    LET s1 == SetState(Emit(st, Tok("begin_object_value")), "Rest")
    IN Push(s1, Frame("serialize_value", "-", "-", FALSE, "ser"), "call")

\* up to value.serialize(&mut *self.ser)
SerializeMap_serialize_value(st) ==
    LET s1 == Emit(st, Tok("begin_object_value"))
    IN Push(s1, Frame("serialize_value", "-", "-", FALSE, "ser"), "call")

\* after value.serialize(&mut *self.ser)? has returned
SerializeMap_serialize_value_ret(st) == Emit(st, Tok("end_object_value"))

\* serde's provided method: self.serialize_key(key)?; self.serialize_value(value)
SerializeMap_serialize_entry(st) == SerializeMap_serialize_key(st, TRUE)

\* fault: end closes only after an entry
SerializeMap_end_rest_only(st) ==
    LET c == TopFrame(st)
        s0 == Pop(st)
    IN IF c.state = "Rest" THEN Emit(s0, Tok("end_object")) ELSE s0

SerializeMap_end(st) ==
    LET c == TopFrame(st)
        s0 == Pop(st)
    IN IF not_empty(c) THEN Emit(s0, Tok("end_object")) ELSE s0

\* SerializeMap::serialize_entry(self, key, value) with key: &'static str, whose
\* Serialize impl calls serialize_str on the MapKeySerializer
SerializeStruct_serialize_field(st, key) ==
    LET s1 == SerializeMap_serialize_entry(st)
        s2 == MapKeySerializer_serialize_str(s1, key)
        s3 == IF s1.ctl = "call" THEN Pop(s2) ELSE s2
        s4 == SerializeMap_serialize_key_ret([s3 EXCEPT !.ctl = "ret"])
    IN SerializeMap_serialize_value(s4)

SerializeStruct_end(st) == SerializeMap_end(st)

SerializeStructVariant_serialize_field(st, key) ==
    SerializeStruct_serialize_field(st, key)

SerializeStructVariant_end(st) ==
    LET c == TopFrame(st)
        s0 == Pop(st)
        s1 == IF not_empty(c) THEN Emit(s0, Tok("end_object")) ELSE s0
        s2 == Emit(s1, Tok("end_object_value"))
    IN Emit(s2, Tok("end_object"))

----------------------------------------------------------------------------
(* Serializer::serialize_bytes: a sequence of known length fed byte by     *)
(* byte; u8's Serialize impl calls serialize_u8.                           *)

RECURSIVE serialize_bytes_loop(_, _)
serialize_bytes_loop(st, v) ==
    IF v = <<>> THEN st
    ELSE LET s1 == SerializeSeq_serialize_element(st)
             s2 == serialize_u8(s1, Head(v))
             s3 == IF s1.ctl = "call" THEN Pop(s2) ELSE s2
             s4 == SerializeSeq_serialize_element_ret([s3 EXCEPT !.ctl = "ret"])
         IN serialize_bytes_loop(s4, Tail(v))

serialize_bytes(st, v) ==
    LET s1 == serialize_seq(st, Some(Len(v)))
        s2 == serialize_bytes_loop([s1 EXCEPT !.ctl = "ret"], v)
    IN IF s2.err = "none"
       THEN SerializeSeq_end(s2)
       ELSE [s2 EXCEPT !.stack = st.stack]

----------------------------------------------------------------------------
(* What a driver can ask of a serde::Serializer: one request per method    *)
(* of the trait, with arguments from the small value sets above.           *)

Req(m, b, n, s) == [m |-> m, b |-> b, n |-> n, s |-> s]

IntMethods ==
    {"serialize_i8", "serialize_i16", "serialize_i32", "serialize_i64",
     "serialize_u8", "serialize_u16", "serialize_u32", "serialize_u64"}

FloatMethods == {"serialize_f32", "serialize_f64"}

ScalarReqs ==
    {Req("serialize_bool", b, 0, <<>>) : b \in BoolVals}
    \cup {Req(m, FALSE, n, <<>>) : m \in IntMethods, n \in IntVals}
    \cup {Req(m, FALSE, n, <<>>) : m \in FloatMethods, n \in FloatVals}
    \cup {Req("serialize_char", FALSE, c, <<>>) : c \in CharVals}
    \cup {Req("serialize_str", FALSE, 0, s) : s \in StrVals}
    \cup {Req("serialize_bytes", FALSE, 0, s) : s \in BytesVals}
    \cup {Req(m, FALSE, 0, <<>>) :
            m \in {"serialize_none", "serialize_unit", "serialize_unit_struct"}}
    \cup {Req("serialize_unit_variant", FALSE, 0, s) : s \in VariantNames}

WrapReqs ==
    {Req(m, FALSE, 0, <<>>) : m \in {"serialize_some", "serialize_newtype_struct"}}
    \cup {Req("serialize_newtype_variant", FALSE, 0, s) : s \in VariantNames}

OpenReqs ==
    {Req(m, FALSE, n, <<>>) : m \in {"serialize_seq", "serialize_map"}, n \in OptLens}
    \cup {Req(m, FALSE, n, <<>>) :
            m \in {"serialize_tuple", "serialize_tuple_struct", "serialize_struct"},
            n \in Lens}
    \cup {Req(m, FALSE, n, s) :
            m \in {"serialize_tuple_variant", "serialize_struct_variant"},
            n \in Lens, s \in VariantNames}

Reqs == ScalarReqs \cup WrapReqs \cup OpenReqs

\* impl serde::Serializer for &mut Serializer<W, F>
Serializer_call(st, r) ==
    CASE r.m = "serialize_bool" -> serialize_bool(st, r.b)
      [] r.m = "serialize_i8" -> serialize_i8(st, r.n)
      [] r.m = "serialize_i16" -> serialize_i16(st, r.n)
      [] r.m = "serialize_i32" -> serialize_i32(st, r.n)
      [] r.m = "serialize_i64" -> serialize_i64(st, r.n)
      [] r.m = "serialize_u8" -> serialize_u8(st, r.n)
      [] r.m = "serialize_u16" -> serialize_u16(st, r.n)
      [] r.m = "serialize_u32" -> serialize_u32(st, r.n)
      [] r.m = "serialize_u64" -> serialize_u64(st, r.n)
      [] r.m = "serialize_f32" -> serialize_f32(st, r.n)
      [] r.m = "serialize_f64" -> serialize_f64(st, r.n)
      [] r.m = "serialize_char" -> serialize_char(st, r.n)
      [] r.m = "serialize_str" -> serialize_str(st, r.s)
      [] r.m = "serialize_bytes" -> serialize_bytes(st, r.s)
      [] r.m = "serialize_none" -> serialize_none(st)
      [] r.m = "serialize_some" -> serialize_some(st)
      [] r.m = "serialize_unit" -> serialize_unit(st)
      [] r.m = "serialize_unit_struct" -> serialize_unit_struct(st)
      [] r.m = "serialize_newtype_struct" -> serialize_newtype_struct(st)
      [] r.m = "serialize_unit_variant" -> serialize_unit_variant(st, r.s)
      [] r.m = "serialize_newtype_variant" -> serialize_newtype_variant(st, r.s)
      [] r.m = "serialize_seq" -> serialize_seq(st, r.n)
      [] r.m = "serialize_tuple" -> serialize_tuple(st, r.n)
      [] r.m = "serialize_tuple_struct" -> serialize_tuple_struct(st, r.n)
      [] r.m = "serialize_map" -> serialize_map(st, r.n)
      [] r.m = "serialize_struct" -> serialize_struct(st, r.n)
      [] r.m = "serialize_tuple_variant" -> serialize_tuple_variant(st, r.s, r.n)
      [] r.m = "serialize_struct_variant" -> serialize_struct_variant(st, r.s, r.n)

\* impl ser::Serializer for MapKeySerializer
MapKeySerializer_call(st, r) ==
    CASE r.m = "serialize_bool" -> MapKeySerializer_serialize_bool(st, r.b)
      [] r.m = "serialize_i8" -> MapKeySerializer_serialize_i8(st, r.n)
      [] r.m = "serialize_i16" -> MapKeySerializer_serialize_i16(st, r.n)
      [] r.m = "serialize_i32" -> MapKeySerializer_serialize_i32(st, r.n)
      [] r.m = "serialize_i64" -> MapKeySerializer_serialize_i64(st, r.n)
      [] r.m = "serialize_u8" -> MapKeySerializer_serialize_u8(st, r.n)
      [] r.m = "serialize_u16" -> MapKeySerializer_serialize_u16(st, r.n)
      [] r.m = "serialize_u32" -> MapKeySerializer_serialize_u32(st, r.n)
      [] r.m = "serialize_u64" -> MapKeySerializer_serialize_u64(st, r.n)
      [] r.m = "serialize_f32" -> MapKeySerializer_serialize_f32(st, r.n)
      [] r.m = "serialize_f64" -> MapKeySerializer_serialize_f64(st, r.n)
      [] r.m = "serialize_char" -> MapKeySerializer_serialize_char(st, r.n)
      [] r.m = "serialize_str" -> MapKeySerializer_serialize_str(st, r.s)
      [] r.m = "serialize_bytes" -> MapKeySerializer_serialize_bytes(st, r.s)
      [] r.m = "serialize_none" -> MapKeySerializer_serialize_none(st)
      [] r.m = "serialize_some" -> MapKeySerializer_serialize_some(st)
      [] r.m = "serialize_unit" -> MapKeySerializer_serialize_unit(st)
      [] r.m = "serialize_unit_struct" -> MapKeySerializer_serialize_unit_struct(st)
      [] r.m = "serialize_newtype_struct" -> MapKeySerializer_serialize_newtype_struct(st)
      [] r.m = "serialize_unit_variant" -> MapKeySerializer_serialize_unit_variant(st, r.s)
      [] r.m = "serialize_newtype_variant" -> MapKeySerializer_serialize_newtype_variant(st, r.s)
      [] r.m = "serialize_seq" -> MapKeySerializer_serialize_seq(st, r.n)
      [] r.m = "serialize_tuple" -> MapKeySerializer_serialize_tuple(st, r.n)
      [] r.m = "serialize_tuple_struct" -> MapKeySerializer_serialize_tuple_struct(st, r.n)
      [] r.m = "serialize_map" -> MapKeySerializer_serialize_map(st, r.n)
      [] r.m = "serialize_struct" -> MapKeySerializer_serialize_struct(st, r.n)
      [] r.m = "serialize_tuple_variant" -> MapKeySerializer_serialize_tuple_variant(st, r.s, r.n)
      [] r.m = "serialize_struct_variant" -> MapKeySerializer_serialize_struct_variant(st, r.s, r.n)

----------------------------------------------------------------------------
(* Returning.  A value's serialization has returned st.err ("none": Ok) to *)
(* the handler waiting in the top frame, which runs on from there: each    *)
(* `?` passes an Err up unchanged.  The unwinding stops where a driver is  *)
(* in control again: at a Compound, or below to_writer.                    *)

RECURSIVE Unwind(_)
Unwind(st) ==
    LET f == TopFrame(st)
        s0 == [Pop(st) EXCEPT !.ctl = "ret"]
    IN CASE f.t = "to_writer" -> s0
         [] f.t = "serialize_element" -> SerializeSeq_serialize_element_ret(s0)
         [] f.t = "serialize_key" ->
                LET s1 == SerializeMap_serialize_key_ret(s0)
                IN IF f.entry THEN SerializeMap_serialize_value(s1) ELSE s1
         [] f.t = "serialize_value" -> SerializeMap_serialize_value_ret(s0)
         [] f.t = "serialize_newtype_variant" ->
                Unwind(serialize_newtype_variant_ret(s0))
         [] f.t = "serialize_some" -> Unwind(s0)
         [] f.t = "serialize_newtype_struct" -> Unwind(s0)

\* an engine method has run: if it returned, its caller runs on
Settle(st) == IF st.ctl = "ret" THEN Unwind(st) ELSE st

Result(st) == IF st.err = "none" THEN "Ok" ELSE st.err

----------------------------------------------------------------------------
(* The state machine. *)

Top == stack[Len(stack)]

AtCompound == stack # <<>> /\ Top.t = "Compound"

\* the driver holds a Serializer (via = "ser") or a MapKeySerializer ("key")
AtValue(via) == stack # <<>> /\ Top.t # "Compound" /\ Top.via = via

SeqKinds ==
    {"SerializeSeq", "SerializeTuple", "SerializeTupleStruct", "SerializeTupleVariant"}

StructKinds == {"SerializeStruct", "SerializeStructVariant"}

\* the points at which the sink can refuse a write during a step that makes
\* n formatter calls when nothing fails: never, or at the call after the k-th
FailPoints(n) == {Inf} \cup 0..(n - 1)

Made(st) == Len(st.calls) - Len(calls)

\* the newtype structs through which the driver in control was reached
RECURSIVE Wrapped(_)
Wrapped(stk) ==
    IF stk # <<>> /\ stk[Len(stk)].t = "serialize_newtype_struct"
    THEN 1 + Wrapped(SubSeq(stk, 1, Len(stk) - 1))
    ELSE 0

\* the driver in control was reached from serialize_entry's serialize_key
InEntry(stk) ==
    LET k == Len(stk) - Wrapped(stk)
    IN k >= 1 /\ stk[k].t = "serialize_key" /\ stk[k].entry

Last(on, r, st) ==
    [on |-> on, api |-> r.m, b |-> r.b, n |-> r.n, s |-> r.s,
     wraps |-> Wrapped(stack), entry |-> InEntry(stack),
     res |-> IF st.err # "none" THEN st.err
             ELSE IF st.ctl = "call" THEN "call" ELSE "Ok",
     made |-> Made(st)]

Commit(st, l) ==
    /\ calls' = st.calls
    /\ stack' = st.stack
    /\ ret' = IF st.stack = <<>> \/ TopFrame(st).t = "Compound"
              THEN Result(st) ELSE "none"
    /\ last' = l
    /\ errs' = IF st.err # "none" /\ l.api # "propagate" THEN errs + 1 ELSE errs
    /\ steps' = IF l.api \in {"end", "propagate"} THEN steps ELSE steps + 1
    /\ UNCHANGED formatter

\* to_writer / to_writer_pretty: Serializer::new(writer) or
\* Serializer::pretty(writer), then value.serialize(&mut ser)
Init ==
    /\ formatter \in {"CompactFormatter", "PrettyFormatter"}
    /\ stack = <<Frame("to_writer", "-", "-", FALSE, "ser")>>
    /\ calls = <<>>
    /\ ret = "none"
    /\ last = [on |-> "to_writer", api |-> "to_writer", b |-> FALSE, n |-> 0,
               s |-> <<>>, wraps |-> 0, entry |-> FALSE, res |-> "call", made |-> 0]
    /\ errs = 0
    /\ steps = 0

\* an error may arise in this step: ecap bounds the steps in which one may
CanFail(ecap) == errs < MaxErrs /\ steps < ecap

Points(n, ecap) == IF CanFail(ecap) THEN FailPoints(n) ELSE {Inf}

\* the driver calls a method of the Serializer it was handed
Call_Serializer(R, cap, ecap) ==
    /\ AtValue("ser")
    /\ steps < cap
    /\ \E r \in R :
        /\ \E b \in Points(Made(Settle(Serializer_call(St(Inf), r))), ecap) :
            LET m == Serializer_call(St(b), r)
            IN Commit(Settle(m), Last("Serializer", r, m))

\* the driver (a key's Serialize impl) calls a method of the MapKeySerializer
Call_MapKeySerializer(R, cap, ecap) ==
    /\ AtValue("key")
    /\ steps < cap
    /\ \E r \in R :
        /\ MapKeySerializer_call(St(Inf), r).err # "none" => errs < MaxErrs
        /\ \E b \in Points(Made(Settle(MapKeySerializer_call(St(Inf), r))), ecap) :
            LET m == MapKeySerializer_call(St(b), r)
            IN Commit(Settle(m), Last("MapKeySerializer", r, m))

Element(st, kind) ==
    CASE kind = "SerializeSeq" -> SerializeSeq_serialize_element(st)
      [] kind = "SerializeTuple" -> SerializeTuple_serialize_element(st)
      [] kind = "SerializeTupleStruct" -> SerializeTupleStruct_serialize_field(st)
      [] kind = "SerializeTupleVariant" -> SerializeTupleVariant_serialize_field(st)

Field(st, kind, key) ==
    CASE kind = "SerializeStruct" -> SerializeStruct_serialize_field(st, key)
      [] kind = "SerializeStructVariant" ->
             SerializeStructVariant_serialize_field(st, key)

End(st, kind) ==
    CASE kind = "SerializeSeq" -> SerializeSeq_end(st)
      [] kind = "SerializeTuple" -> SerializeTuple_end(st)
      [] kind = "SerializeTupleStruct" -> SerializeTupleStruct_end(st)
      [] kind = "SerializeTupleVariant" -> SerializeTupleVariant_end(st)
      [] kind = "SerializeMap" -> SerializeMap_end(st)
      [] kind = "SerializeStruct" -> SerializeStruct_end(st)
      [] kind = "SerializeStructVariant" -> SerializeStructVariant_end(st)

CanFeed(cap) == AtCompound /\ steps < cap

\* serialize_element (seq, tuple) or serialize_field (tuple struct, tuple variant)
Call_serialize_element(cap, ecap) ==
    /\ CanFeed(cap)
    /\ Top.kind \in SeqKinds
    /\ \E b \in Points(Made(Element(St(Inf), Top.kind)), ecap) :
        LET m == Element(St(b), Top.kind)
        IN Commit(m, Last("Compound", Req("serialize_element", FALSE, 0, <<>>), m))

Call_serialize_key(cap, ecap) ==
    /\ CanFeed(cap)
    /\ Top.kind = "SerializeMap"
    /\ \E b \in Points(Made(SerializeMap_serialize_key(St(Inf), FALSE)), ecap) :
        LET m == SerializeMap_serialize_key(St(b), FALSE)
        IN Commit(m, Last("Compound", Req("serialize_key", FALSE, 0, <<>>), m))

Call_serialize_value(cap, ecap) ==
    /\ CanFeed(cap)
    /\ Top.kind = "SerializeMap"
    /\ \E b \in Points(Made(SerializeMap_serialize_value(St(Inf))), ecap) :
        LET m == SerializeMap_serialize_value(St(b))
        IN Commit(m, Last("Compound", Req("serialize_value", FALSE, 0, <<>>), m))

Call_serialize_entry(cap, ecap) ==
    /\ CanFeed(cap)
    /\ Top.kind = "SerializeMap"
    /\ \E b \in Points(Made(SerializeMap_serialize_entry(St(Inf))), ecap) :
        LET m == SerializeMap_serialize_entry(St(b))
        IN Commit(m, Last("Compound", Req("serialize_entry", FALSE, 0, <<>>), m))

\* serialize_field(key, value) of a struct or a struct variant
Call_serialize_field(cap, ecap) ==
    /\ CanFeed(cap)
    /\ Top.kind \in StructKinds
    /\ \E key \in FieldNames :
        \E b \in Points(Made(Field(St(Inf), Top.kind, key)), ecap) :
            LET m == Field(St(b), Top.kind, key)
            IN Commit(m, Last("Compound", Req("serialize_field", FALSE, 0, key), m))

\* end(self): the Compound is consumed and the driver returns what end returned
Call_end(ecap) ==
    /\ AtCompound
    /\ \E b \in Points(Made(Settle(End(St(Inf), Top.kind))), ecap) :
        LET m == End(St(b), Top.kind)
        IN Commit(Settle(m), Last("Compound", Req("end", FALSE, 0, <<>>), m))

\* the driver returns the Err a Compound method gave it (`?`), dropping the Compound
Driver_propagate ==
    /\ AtCompound
    /\ ret \notin {"Ok", "none"}
    /\ LET m == [Pop(St(Inf)) EXCEPT !.err = ret]
       IN Commit(Unwind(m), Last("driver", Req("propagate", FALSE, 0, <<>>), m))

\* SerError::Custom(msg.to_string())
custom(msg) == "Custom(" \o ToString(msg) \o ")"

\* the driver fails on its own account: Err(ser::Error::custom(msg))
Driver_custom(cap, ecap) ==
    /\ stack # <<>>
    /\ steps < cap
    /\ CanFail(ecap)
    /\ \E msg \in IntVals :
        LET s0 == IF AtCompound THEN Pop(St(Inf)) ELSE St(Inf)
            m == Fail(s0, custom(msg))
        IN Commit(Unwind(m), Last("driver", Req("custom", FALSE, msg, <<>>), m))

(* Spec: drivers that nest structures, with values of a few kinds.         *)

CoreReqs ==
    {r \in Reqs :
        r.m \in {"serialize_i32", "serialize_newtype_variant", "serialize_seq",
                 "serialize_map", "serialize_struct", "serialize_tuple_variant"}}

CoreKeyReqs ==
    {r \in Reqs :
        \/ r.m \in {"serialize_i32", "serialize_str"}
        \/ (r.m = "serialize_bool" /\ r.b)}

Next ==
    \/ Call_Serializer(CoreReqs, MaxSteps, MaxErrSteps)
    \/ Call_MapKeySerializer(CoreKeyReqs, MaxSteps, MaxErrSteps)
    \/ Call_serialize_element(MaxSteps, MaxErrSteps)
    \/ Call_serialize_key(MaxSteps, MaxErrSteps)
    \/ Call_serialize_value(MaxSteps, MaxErrSteps)
    \/ Call_serialize_entry(MaxSteps, MaxErrSteps)
    \/ Call_serialize_field(MaxSteps, MaxErrSteps)
    \/ Call_end(MaxErrSteps)
    \/ Driver_propagate
    \/ Driver_custom(MaxSteps, MaxErrSteps)

Spec == Init /\ [][Next]_vars

(* SpecKinds: drivers that use every method of the Serializer and of the   *)
(* MapKeySerializer, in short runs.                                        *)

NextKinds ==
    \/ Call_Serializer(Reqs, MaxKindSteps, MaxErrSteps)
    \/ Call_MapKeySerializer(Reqs, MaxKindSteps, MaxErrSteps)
    \/ Call_serialize_element(MaxKindSteps, MaxErrSteps)
    \/ Call_serialize_key(MaxKindSteps, MaxErrSteps)
    \/ Call_serialize_value(MaxKindSteps, MaxErrSteps)
    \/ Call_serialize_entry(MaxKindSteps, MaxErrSteps)
    \/ Call_serialize_field(MaxKindSteps, MaxErrSteps)
    \/ Call_end(MaxErrSteps)
    \/ Driver_propagate
    \/ Driver_custom(MaxKindSteps, MaxErrSteps)

SpecKinds == Init /\ [][NextKinds]_vars

(* SpecRender: the drivers of Spec in shorter runs, for the properties of  *)
(* the content of the sink.                                                *)

NextRender ==
    \/ Call_Serializer(CoreReqs, MaxRenderSteps, MaxErrSteps)
    \/ Call_MapKeySerializer(CoreKeyReqs, MaxRenderSteps, MaxErrSteps)
    \/ Call_serialize_element(MaxRenderSteps, MaxErrSteps)
    \/ Call_serialize_key(MaxRenderSteps, MaxErrSteps)
    \/ Call_serialize_value(MaxRenderSteps, MaxErrSteps)
    \/ Call_serialize_entry(MaxRenderSteps, MaxErrSteps)
    \/ Call_serialize_field(MaxRenderSteps, MaxErrSteps)
    \/ Call_end(MaxErrSteps)
    \/ Driver_propagate
    \/ Driver_custom(MaxRenderSteps, MaxErrSteps)

SpecRender == Init /\ [][NextRender]_vars

(* SpecLive: the drivers of a finite value.  MaxLiveSteps bounds the calls *)
(* that open, wrap or feed; a value that is owed can always be a scalar    *)
(* (every position of a value graph holds a value), also after them.  The  *)
(* call runs on one stack without a suspension point, and the driver of a  *)
(* finite value does not stall: where it owes a value it serializes one,   *)
(* and it ends the Compound it holds unless it feeds it or returns an Err  *)
(* (weak fairness of Call_scalar and of Call_end).                         *)

Call_scalar ==
    /\ stack # <<>> /\ ~AtCompound
    /\ LET r == Req("serialize_i32", FALSE, 1, <<>>)
           m == IF Top.via = "key" THEN MapKeySerializer_call(St(Inf), r)
                ELSE Serializer_call(St(Inf), r)
       IN Commit(Settle(m),
                 Last(IF Top.via = "key" THEN "MapKeySerializer" ELSE "Serializer",
                      r, m))

NextLive ==
    \/ Call_Serializer(CoreReqs, MaxLiveSteps, MaxErrSteps)
    \/ Call_MapKeySerializer(CoreKeyReqs, MaxLiveSteps, MaxErrSteps)
    \/ Call_serialize_element(MaxLiveSteps, MaxErrSteps)
    \/ Call_serialize_key(MaxLiveSteps, MaxErrSteps)
    \/ Call_serialize_value(MaxLiveSteps, MaxErrSteps)
    \/ Call_serialize_entry(MaxLiveSteps, MaxErrSteps)
    \/ Call_serialize_field(MaxLiveSteps, MaxErrSteps)
    \/ Call_end(MaxErrSteps)
    \/ Driver_propagate
    \/ Driver_custom(MaxLiveSteps, MaxErrSteps)
    \/ Call_scalar

SpecLive ==
    /\ Init /\ [][NextLive]_vars
    /\ WF_vars(Call_scalar)
    /\ WF_vars(Call_end(MaxErrSteps))

----------------------------------------------------------------------------
(* The formatters (crate::format).  CompactFormatter takes every method of *)
(* the Formatter trait as provided; the trait and PrettyFormatter are      *)
(* described in the specification, section 4.1, from which the rendering   *)
(* below is taken: braces around a structure, a comma before every element *)
(* but the first, bracketed keys; Pretty adds a newline and indentation    *)
(* before every element and before the closing brace of a structure that   *)
(* is not empty.  The sink holds characters (their codes); ws marks the    *)
(* whitespace a formatter inserts.                                         *)

Ch(x) == [ws |-> FALSE, ch |-> x]
Ws(x) == [ws |-> TRUE, ch |-> x]

\* the escaped body of a string: the delimiter and the escape character are
\* backslash-escaped, other characters pass verbatim
RECURSIVE format_escaped_str_contents(_)
format_escaped_str_contents(s) ==
    IF s = <<>> THEN <<>>
    ELSE (IF Head(s) \in {34, 92} THEN <<Ch(92), Ch(Head(s))>> ELSE <<Ch(Head(s))>>)
         \o format_escaped_str_contents(Tail(s))

\* the provided methods of the Formatter trait: the minimal literal
Text(codes) == [i \in 1..Len(codes) |-> Ch(codes[i])]

Formatter_write(c) ==
    CASE c.op \in {"begin_array", "begin_object"} -> Text(<<123>>)
      [] c.op \in {"end_array", "end_object"} -> Text(<<125>>)
      [] c.op = "begin_array_value" -> IF c.b THEN <<>> ELSE Text(<<44>>)
      [] c.op = "begin_object_key" ->
             (IF c.b THEN <<>> ELSE Text(<<44>>)) \o Text(<<91>>)
      [] c.op = "end_object_key" -> Text(<<93>>)
      [] c.op = "begin_object_value" -> Text(<<61>>)
      [] c.op \in {"end_array_value", "end_object_value"} -> <<>>
      [] c.op \in {"begin_string", "end_string"} -> Text(<<34>>)
      [] c.op = "format_escaped_str_contents" -> format_escaped_str_contents(c.s)
      [] c.op = "write_null" -> Text(<<110, 105, 108>>)
      [] c.op = "write_bool" ->
             IF c.b THEN Text(<<116, 114, 117, 101>>)
             ELSE Text(<<102, 97, 108, 115, 101>>)
      [] OTHER -> Text(<<48 + c.n>>)

Indent(depth) == IF depth > 0 THEN [i \in 1..depth |-> Ws(32)] ELSE <<>>

\* fault: pretty mode leaves out the separator between elements
PrettyFormatter_write_no_separator(fs, c) ==
    CASE c.op \in {"begin_array_value", "begin_object_key"} ->
             <<Ws(10)>> \o Indent(fs.current_indent)
      [] OTHER -> Formatter_write(c)

\* PrettyFormatter: fs is its state, the nesting depth and whether the
\* innermost structure has a value yet
PrettyFormatter_new == [current_indent |-> 0, has_value |-> FALSE]

PrettyFormatter_state(fs, c) ==
    CASE c.op \in {"begin_array", "begin_object"} ->
             [current_indent |-> fs.current_indent + 1, has_value |-> FALSE]
      [] c.op \in {"end_array", "end_object"} ->
             [fs EXCEPT !.current_indent = @ - 1]
      [] c.op \in {"end_array_value", "end_object_value"} ->
             [fs EXCEPT !.has_value = TRUE]
      [] OTHER -> fs

PrettyFormatter_write(fs, c) ==
    CASE c.op \in {"begin_array_value", "begin_object_key"} ->
             Formatter_write(c) \o <<Ws(10)>> \o Indent(fs.current_indent)
      [] c.op \in {"end_array", "end_object"} ->
             (IF fs.has_value
              THEN <<Ws(10)>> \o Indent(fs.current_indent - 1)
              ELSE <<>>) \o Formatter_write(c)
      [] OTHER -> Formatter_write(c)

\* what the calls cs leave in the sink; a call the sink refused left nothing
RECURSIVE Written(_, _, _)
Written(f, fs, cs) ==
    IF cs = <<>> THEN <<>>
    ELSE LET c == Head(cs)
         IN IF ~c.ok THEN Written(f, fs, Tail(cs))
            ELSE (IF f = "PrettyFormatter" THEN PrettyFormatter_write(fs, c)
                  ELSE Formatter_write(c))
                 \o Written(f, PrettyFormatter_state(fs, c), Tail(cs))

\* the content of the sink (the writer W)
writer == Written(formatter, PrettyFormatter_new, calls)

----------------------------------------------------------------------------
(* Reading the trace of formatter calls. *)

Done == stack = <<>>

\* the run returned Ok and no engine call returned an Err on the way, so that
\* every Compound that was opened has been ended (end consumes the Compound,
\* and a driver can drop one only by returning an Err)
CleanOk == Done /\ ret = "Ok" /\ errs = 0

Opener(op) == op \in {"begin_array", "begin_object"}
Closer(op) == op \in {"end_array", "end_object"}
Matching(b, e) ==
    \/ b = "begin_array" /\ e = "end_array"
    \/ b = "begin_object" /\ e = "end_object"

\* the structures left open after the calls cs, innermost last, starting from
\* `open`; <<"unmatched">> when an end_* has no begin_* of its kind to close
RECURSIVE Scan(_, _)
Scan(cs, open) ==
    IF cs = <<>> THEN open
    ELSE LET op == Head(cs).op
         IN IF Opener(op) THEN Scan(Tail(cs), Append(open, op))
            ELSE IF Closer(op)
                 THEN IF open # <<>> /\ Matching(open[Len(open)], op)
                      THEN Scan(Tail(cs), SubSeq(open, 1, Len(open) - 1))
                      ELSE <<"unmatched">>
                 ELSE Scan(Tail(cs), open)

Balanced(cs) == Scan(cs, <<>>) = <<>>

\* the calls the last engine method made itself, in a state reached by it alone
\* (nothing ran on after it)
Ops(cs) == [i \in 1..Len(cs) |-> cs[i].op]
Tail_(cs, n) == SubSeq(cs, Len(cs) - n + 1, Len(cs))

----------------------------------------------------------------------------
(* C1: when a top-level serialization returns Ok and no call has returned  *)
(* an error, the begin_array/begin_object and end_array/end_object calls   *)
(* the formatter received are balanced and strictly nested, and the        *)
(* nesting depth is back at 0.                                             *)
C1_Balanced == CleanOk => Balanced(calls)

(* C2: serialize_element and serialize_key pass first = false (a leading   *)
(* separator) if and only if the Compound is in state Rest at the call;    *)
(* a call in state First passes first = true; the state is Rest afterwards.*)
FeedApis == {"serialize_element", "serialize_key", "serialize_entry", "serialize_field"}

C2_SeparatorIffRest ==
    [][(AtCompound /\ last'.on = "Compound" /\ last'.api \in FeedApis
            /\ last'.made >= 1)
        => LET c == calls'[Len(calls) + 1]
           IN /\ (~c.b) <=> (Top.state = "Rest")
              /\ Top.state = "First" => c.b
              /\ c.ok => stack'[Len(stack)].state = "Rest"]_vars

(* C3: a Compound created in state Empty stays in state Empty whatever is  *)
(* fed to it, and its end() emits no closing delimiter.                    *)
(* (The end() of a variant's Compound still closes the wrapping           *)
(* single-entry mapping: end_object_value, end_object.)                    *)
VariantKinds == {"SerializeTupleVariant", "SerializeStructVariant"}

C3_EmptyStaysEmpty ==
    [][(AtCompound /\ Top.state = "Empty" /\ last'.on = "Compound")
        => IF last'.api = "end"
           THEN last'.made = (IF Top.kind \in VariantKinds THEN 2 ELSE 0)
           ELSE stack'[Len(stack)].state = "Empty"]_vars

----------------------------------------------------------------------------
\* the formatter calls the engine method of this step made itself
Own == SubSeq(calls', Len(calls) + 1, Len(calls) + last'.made)
\* the request of this step
ThisReq == Req(last'.api, last'.b, last'.n, last'.s)

OpenOf(api) == IF api \in {"serialize_map", "serialize_struct"}
               THEN "begin_object" ELSE "begin_array"
CloseOf(api) == IF api \in {"serialize_map", "serialize_struct"}
                THEN "end_object" ELSE "end_array"

(* C4: serialize_seq(len) and serialize_map(len) emit the opening          *)
(* delimiter first; they return a Compound in state Empty, having also     *)
(* emitted the closing delimiter, exactly when len = Some(0); for every    *)
(* other len they emit no closing delimiter and return state First.        *)
C4_Open ==
    [][(last'.on = "Serializer" /\ last'.api \in {"serialize_seq", "serialize_map"})
        => /\ last'.made >= 1
           /\ Own[1].op = OpenOf(last'.api)
           /\ last'.res = "Ok" =>
                /\ stack' = Append(stack, stack'[Len(stack')])
                /\ stack'[Len(stack')].t = "Compound"
                /\ (stack'[Len(stack')].state = "Empty") <=> (last'.n = Some(0))
                /\ last'.n = Some(0) =>
                      Ops(Own) = <<OpenOf(last'.api), CloseOf(last'.api)>>
                /\ last'.n # Some(0) =>
                      /\ Ops(Own) = <<OpenOf(last'.api)>>
                      /\ stack'[Len(stack')].state = "First"]_vars

C4_Witness ==
    /\ last.on = "Serializer" /\ last.api = "serialize_map" /\ last.res = "Ok"
    /\ last.n = Some(0) /\ AtCompound /\ Top.state = "Empty"
    /\ Len(calls) > 2

(* C5: opening a sequence, tuple, tuple struct, mapping or struct with     *)
(* known length 0 and calling end() at once emits exactly two structural   *)
(* tokens, the opening delimiter immediately followed by the closing one;  *)
(* so does an empty byte sequence; whichever formatter is plugged in.      *)
PlainOpens ==
    {"serialize_seq", "serialize_tuple", "serialize_tuple_struct",
     "serialize_map", "serialize_struct"}

C5_EmptyPair ==
    [][/\ (/\ last.on = "Serializer" /\ last.api \in PlainOpens
            /\ last.n = Some(0) /\ last.res = "Ok"
            /\ last'.on = "Compound" /\ last'.api = "end")
        => /\ last.made = Len(<<"open", "close">>)
           /\ last'.made = 0 /\ last'.res = "Ok"
           /\ Ops(SubSeq(calls', Len(calls) - 1, Len(calls) + last'.made))
                = <<OpenOf(last.api), CloseOf(last.api)>>
       /\ (/\ last'.on = "Serializer" /\ last'.api = "serialize_bytes"
            /\ last'.s = <<>> /\ last'.res = "Ok")
        => Ops(Own) = <<"begin_array", "end_array">>]_vars

C5_Witness ==
    /\ formatter = "PrettyFormatter"
    /\ last.on = "Compound" /\ last.api = "end" /\ last.res = "Ok"
    /\ last.made = 0
    /\ Done /\ ret = "Ok"
    /\ Ops(calls) = <<"begin_object", "end_object">>

(* C6: a sequence fed N >= 1 elements and then ended has made exactly N    *)
(* begin_array_value calls, exactly the first of them with first = true;   *)
(* every separator (first = false) comes right after the end_array_value   *)
(* of the element before; the end_array_value of the last element is       *)
(* immediately followed by the one end_array.                              *)
ElementStarts(cs) == {i \in 1..Len(cs) : cs[i].op = "begin_array_value"}

\* a finished top-level sequence whose elements are all scalars: the drivers
\* called serialize_seq, then serialize_element and one scalar per element
FlatSeq ==
    /\ CleanOk
    /\ calls # <<>> /\ calls[1].op = "begin_array"
    /\ \A i \in 2..Len(calls) : ~Opener(calls[i].op)
    /\ Cardinality(ElementStarts(calls)) >= 1

C6_Elements ==
    FlatSeq =>
        LET E == ElementStarts(calls)
            n == Len(calls)
        IN /\ 2 * Cardinality(E) + 1 = steps
           /\ \A i \in E : calls[i].b <=> (\A j \in E : i <= j)
           /\ \A i \in E : ~calls[i].b => calls[i - 1].op = "end_array_value"
           /\ calls[n].op = "end_array" /\ calls[n - 1].op = "end_array_value"
           /\ Cardinality({i \in 1..n : calls[i].op = "end_array"}) = 1

(* C7: a sequence or mapping opened with unknown length (None) and fed     *)
(* nothing is in state First at end(); end() emits the closing delimiter   *)
(* exactly once; the resulting tokens are those of the known-zero path.    *)
C7_UnknownLenEmpty ==
    [][(/\ last.on = "Serializer" /\ last.api \in {"serialize_seq", "serialize_map"}
        /\ last.n = None /\ last.res = "Ok"
        /\ last'.on = "Compound" /\ last'.api = "end")
        => LET before == [St(Inf) EXCEPT
                             !.calls = SubSeq(calls, 1, Len(calls) - last.made),
                             !.stack = SubSeq(stack, 1, Len(stack) - 1)]
               zero == Serializer_call(before,
                                       Req(last.api, FALSE, Some(0), <<>>))
           IN /\ Top.state = "First"
              /\ last'.made = 1
              /\ Own[1].op = CloseOf(last.api)
              /\ last'.res = "Ok" =>
                    /\ Ops(SubSeq(calls', Len(calls), Len(calls) + 1))
                         = <<OpenOf(last.api), CloseOf(last.api)>>
                    /\ SubSeq(calls', 1, Len(calls) + 1)
                         = End(zero, Top.kind).calls]_vars

C7_Witness ==
    /\ last.on = "Compound" /\ last.api = "end" /\ last.res = "Ok"
    /\ Done /\ ret = "Ok"
    /\ Ops(calls) = <<"begin_array", "end_array">>
    /\ steps = 1 /\ last.made = 1

----------------------------------------------------------------------------
(* C8: the MapKeySerializer returns KeyMustBeStringOrNumber for a bool,    *)
(* f32, f64, byte sequence, none, some, unit, unit struct, newtype         *)
(* variant, seq, tuple, tuple struct, tuple variant, map, struct and       *)
(* struct variant, also when reached through newtype structs; the          *)
(* rejecting call makes no formatter call, so nothing is written.          *)
RejectedKeyApis ==
    {"serialize_bool", "serialize_f32", "serialize_f64", "serialize_bytes",
     "serialize_none", "serialize_some", "serialize_unit",
     "serialize_unit_struct", "serialize_newtype_variant", "serialize_seq",
     "serialize_tuple", "serialize_tuple_struct", "serialize_tuple_variant",
     "serialize_map", "serialize_struct", "serialize_struct_variant"}

C8_RejectedKeys ==
    [][(last'.on = "MapKeySerializer" /\ last'.api \in RejectedKeyApis)
        => /\ last'.res = KeyMustBeStringOrNumber
           /\ last'.made = 0
           /\ calls' = calls
           /\ ret' = KeyMustBeStringOrNumber]_vars

C8_Witness ==
    /\ last.on = "MapKeySerializer" /\ last.api = "serialize_struct_variant"
    /\ last.wraps = 1
    /\ last.res = KeyMustBeStringOrNumber /\ ret = KeyMustBeStringOrNumber

(* C9: the MapKeySerializer accepts i8..i64, u8..u64, a char, a string, a  *)
(* unit variant and a newtype struct around one of these: it returns Ok    *)
(* when the sink takes the writes and makes exactly the formatter calls    *)
(* the Serializer makes for the same value; a unit variant goes down the   *)
(* string path with its variant name.                                      *)
AcceptedKeyApis ==
    IntMethods \cup {"serialize_char", "serialize_str", "serialize_unit_variant"}

C10_BoolKey ==
    [][(last'.on = "MapKeySerializer" /\ last'.api = "serialize_bool")
        => /\ last'.res = KeyMustBeStringOrNumber
           /\ ret' = KeyMustBeStringOrNumber
           /\ calls' = calls
           /\ calls[Len(calls)].op = "begin_object_key"
           /\ stack' = SubSeq(stack, 1, Len(stack) - 1 - Wrapped(stack))
           /\ stack'[Len(stack')].t = "Compound"]_vars

C10_Witness ==
    /\ last.on = "MapKeySerializer" /\ last.api = "serialize_bool"
    /\ last.entry
    /\ ret = KeyMustBeStringOrNumber
    /\ calls[Len(calls)].op = "begin_object_key"
    /\ AtCompound /\ Top.kind = "SerializeMap"

----------------------------------------------------------------------------
\* the handler to which the value now being serialized returns: the frame under
\* the driver's Compound, seen through serialize_some / serialize_newtype_struct
RECURSIVE Through(_, _)
Through(stk, k) ==
    IF k >= 1 /\ stk[k].t \in {"serialize_some", "serialize_newtype_struct"}
    THEN Through(stk, k - 1)
    ELSE k

Waiting == Through(stack, IF AtCompound THEN Len(stack) - 1 ELSE Len(stack))

\* in this step the value returned to that handler, and no error arose
ReturnsOk == Len(stack') < Waiting /\ errs' = errs /\ last'.on # "driver"

\* the formatter calls made in this step after the called method's own
After(n) == Ops(SubSeq(calls', Len(calls) + last'.made + 1,
                               Len(calls) + last'.made + n))

(* C11: serialize_newtype_variant emits begin_object, begin_object_key     *)
(* with first = true, the variant name as a string, end_object_key and     *)
(* begin_object_value, then hands over to the payload; when the payload    *)
(* has returned Ok it emits end_object_value and end_object, nothing else. *)
VariantHead(variant) ==
    <<Tok("begin_object"), Call("begin_object_key", TRUE, 0, <<>>),
      Tok("begin_string"), Call("format_escaped_str_contents", FALSE, 0, variant),
      Tok("end_string"), Tok("end_object_key"), Tok("begin_object_value")>>

C11_NewtypeVariant ==
    [][/\ (/\ last'.on = "Serializer" /\ last'.api = "serialize_newtype_variant"
            /\ last'.res = "call")
        => /\ Own = VariantHead(last'.s)
           /\ calls' = calls \o Own
           /\ Len(stack') = Len(stack) + 1
       /\ (/\ Waiting >= 1 /\ stack[Waiting].t = "serialize_newtype_variant"
            /\ ReturnsOk)
        => /\ Len(calls') >= Len(calls) + last'.made + 2
           /\ After(2) = <<"end_object_value", "end_object">>
           /\ Waiting = 2 => Len(calls') = Len(calls) + last'.made + 2]_vars

C11_Witness ==
    /\ Done /\ ret = "Ok" /\ errs = 0
    /\ calls = VariantHead(<<86>>)
                 \o <<Call("write_i32", FALSE, 1, <<>>),
                      Tok("end_object_value"), Tok("end_object")>>

(* C12: serialize_tuple_variant and serialize_struct_variant, for every    *)
(* declared length including 0, open an enclosing object whose sole key is *)
(* the variant name and whose value is the payload structure; end() closes *)
(* the payload only if the state is not Empty and then emits               *)
(* end_object_value and end_object; so the payload structure and the       *)
(* enclosing object are each closed exactly once.                          *)
VariantOpens == {"serialize_tuple_variant", "serialize_struct_variant"}

PayloadOpen(api) ==
    IF api = "serialize_struct_variant" THEN "begin_object" ELSE "begin_array"
PayloadClose(api) ==
    IF api = "serialize_struct_variant" THEN "end_object" ELSE "end_array"
KindClose(kind) ==
    IF kind = "SerializeStructVariant" THEN "end_object" ELSE "end_array"

C12_VariantCompound ==
    [][/\ (/\ last'.on = "Serializer" /\ last'.api \in VariantOpens
            /\ last'.res = "Ok")
        => /\ Own = VariantHead(last'.s)
                     \o <<Tok(PayloadOpen(last'.api))>>
                     \o (IF last'.n = 0 THEN <<Tok(PayloadClose(last'.api))>>
                         ELSE <<>>)
           /\ (stack'[Len(stack')].state = "Empty") <=> (last'.n = 0)
       /\ (/\ AtCompound /\ Top.kind \in VariantKinds
            /\ last'.on = "Compound" /\ last'.api = "end" /\ last'.res = "Ok")
        => /\ Ops(Own) = (IF Top.state # "Empty" THEN <<KindClose(Top.kind)>>
                          ELSE <<>>)
                         \o <<"end_object_value", "end_object">>
           /\ (Len(stack) = 2 /\ errs' = 0) => Balanced(calls')]_vars

(* C13: serialize_value neither reads nor changes the Compound's state and *)
(* emits no separator: it emits begin_object_value, hands over to the      *)
(* value, and emits end_object_value when the value has returned Ok; the   *)
(* state of a mapping's Compound changes only in serialize_key (alone or   *)
(* as the first half of serialize_entry / serialize_field).                *)
States == {"Empty", "First", "Rest"}
MapKinds == {"SerializeMap", "SerializeStruct", "SerializeStructVariant"}
KeyApis == {"serialize_key", "serialize_entry", "serialize_field"}

InState(s) == [St(Inf) EXCEPT !.stack[Len(stack)].state = s]

C13_ValueFrame ==
    [][/\ (AtCompound /\ last'.on = "Compound" /\ last'.api = "serialize_value")
        => /\ last'.made = 1
           /\ Own[1].op = "begin_object_value"
           /\ Len(stack') >= Len(stack)
           /\ stack'[Len(stack)] = Top
           /\ \A s \in States :
                 SerializeMap_serialize_value(InState(s)).calls
                   = SerializeMap_serialize_value(St(Inf)).calls
       /\ (/\ Waiting >= 2 /\ stack[Waiting].t = "serialize_value"
            /\ ReturnsOk)
        => /\ Len(calls') = Len(calls) + last'.made + 1
           /\ After(1) = <<"end_object_value">>
           /\ stack' = SubSeq(stack, 1, Waiting - 1)
       /\ \A k \in 1..Len(stack) :
            (/\ k <= Len(stack')
             /\ stack[k].t = "Compound" /\ stack'[k].t = "Compound"
             /\ stack[k].kind \in MapKinds
             /\ stack'[k].state # stack[k].state)
            => /\ last'.on = "Compound" /\ last'.api \in KeyApis
               /\ k = Len(stack)
               /\ stack'[k].state = "Rest"]_vars

C13_Witness ==
    /\ AtCompound /\ Top.kind = "SerializeMap" /\ Top.state = "First"
    /\ ret = "Ok" /\ errs = 0
    /\ Len(calls) >= 3
    /\ calls[Len(calls)].op = "end_object_value"
    /\ calls[Len(calls) - 2].op = "begin_object_value"

(* C14: a struct is serialized as a mapping is: serialize_struct(len)      *)
(* makes the calls and returns the state of serialize_map(Some(len)),      *)
(* serialize_field(k, v) those of serialize_key(k) with k a string         *)
(* followed by serialize_value(v), and end those of the mapping's end.     *)
\* the mapping's Compound in place of the struct's
AsMap(st) == [st EXCEPT !.stack[Len(stack)].kind = "SerializeMap"]
SameButKind(a, b) ==
    /\ a.calls = b.calls
    /\ Len(a.stack) = Len(b.stack)
    /\ \A k \in 1..Len(a.stack) :
          [a.stack[k] EXCEPT !.kind = "SerializeMap"]
            = [b.stack[k] EXCEPT !.kind = "SerializeMap"]

\* serialize_key(k) whose key calls serialize_str, then serialize_value
KeyThenValue(st, key) ==
    LET k1 == SerializeMap_serialize_key(st, FALSE)
        k2 == MapKeySerializer_call([k1 EXCEPT !.ctl = "ret"],
                                    Req("serialize_str", FALSE, 0, key))
    IN SerializeMap_serialize_value(Settle(k2))

C14_StructAsMap ==
    [][/\ (/\ last'.on = "Serializer" /\ last'.api = "serialize_struct"
            /\ last'.res = "Ok")
        => SameButKind([calls |-> calls', stack |-> stack'],
                       serialize_map(St(Inf), Some(last'.n)))
       /\ (/\ AtCompound /\ Top.kind = "SerializeStruct"
            /\ last'.on = "Compound" /\ last'.api = "serialize_field"
            /\ last'.res = "call")
        => SameButKind([calls |-> calls', stack |-> stack'],
                       KeyThenValue(AsMap(St(Inf)), last'.s))
       /\ (/\ AtCompound /\ Top.kind = "SerializeStruct"
            /\ last'.on = "Compound" /\ last'.api = "end"
            /\ last'.res = "Ok")
        => Own = Tail_(SerializeMap_end(AsMap(St(Inf))).calls, last'.made)]_vars

C14_Witness ==
    /\ Done /\ ret = "Ok" /\ errs = 0
    /\ last.on = "Compound" /\ last.api = "end"
    /\ Ops(calls) = <<"begin_object", "begin_object_key", "begin_string",
                       "format_escaped_str_contents", "end_string",
                       "end_object_key", "begin_object_value", "write_i32",
                       "end_object_value", "end_object">>
    /\ calls[4].s = <<102>>
    /\ steps = 3

----------------------------------------------------------------------------
(* C15: the methods of the engine are generic in the formatter (none reads *)
(* `formatter`), so a value leads to the same formatter calls in both      *)
(* modes; the pretty rendering of those calls, with the whitespace the     *)
(* formatter inserted removed, is character for character the compact      *)
(* rendering, which holds no inserted whitespace at all.                   *)
NoWs(out) == SelectSeq(out, LAMBDA x : ~x.ws)

----------------------------------------------------------------------------
(* C16: keys and elements reach the formatter in the order in which the    *)
(* driver passes them: every step only appends to the calls made so far,   *)
(* a key or element passed is written by the step that passes it, once,    *)
(* with its own value, and serialize_key / serialize_element make just     *)
(* their one opening call before handing over.                             *)
IsPrefix(a, b) == Len(a) <= Len(b) /\ SubSeq(b, 1, Len(a)) = a

C16_OrderKept ==
    [][/\ IsPrefix(calls, calls')
       /\ (/\ last'.on \in {"Serializer", "MapKeySerializer"}
            /\ last'.api = "serialize_i32" /\ last'.res = "Ok")
        => Own = <<Call("write_i32", FALSE, last'.n, <<>>)>>
       /\ (/\ last'.on = "MapKeySerializer"
            /\ last'.api = "serialize_str" /\ last'.res = "Ok")
        => Own = <<Tok("begin_string"),
                   Call("format_escaped_str_contents", FALSE, 0, last'.s),
                   Tok("end_string")>>
       /\ (/\ last'.on = "Compound"
            /\ last'.api \in {"serialize_element", "serialize_key"}
            /\ last'.res = "call")
        => /\ Len(Own) = 1
           /\ Own[1].op = (IF last'.api = "serialize_key"
                           THEN "begin_object_key" ELSE "begin_array_value")
           /\ calls' = calls \o Own]_vars

\* the integers written so far, in the order of writing
Ints(cs) ==
    LET w == SelectSeq(cs, LAMBDA c : c.op = "write_i32")
    IN [i \in 1..Len(w) |-> w[i].n]

\* a mapping whose driver passed the keys 1 and 2, in this order
C16_Witness ==
    /\ Len(stack) = 2 /\ AtCompound /\ Top.kind = "SerializeMap"
    /\ ret = "Ok" /\ errs = 0
    /\ Ints(calls) = <<1, 2>>
    /\ Cardinality({i \in 1..Len(calls) : calls[i].op = "begin_object_key"}) = 2
    /\ calls[Len(calls)].op = "end_object_key"

----------------------------------------------------------------------------
(* C17: an error is returned at once.  A step in which the sink refuses a  *)
(* write makes no formatter call after the refused one, does not repeat    *)
(* it, and returns SerError::Io, as do the operations waiting for it; a    *)
(* rejected key is returned without any formatter call; the Err of a       *)
(* value's own serialize (Custom, carrying its message) and an Err handed  *)
(* back with `?` pass through the waiting operations unchanged, without a  *)
(* further formatter call, down to the next driver.                        *)
Refused == {i \in (Len(calls) + 1)..Len(calls') : ~calls'[i].ok}

C17_ErrorsReturned ==
    [][/\ IsPrefix(calls, calls')
       /\ Refused # {}
        => /\ Refused = {Len(calls')}
           /\ ret' = "Io" /\ errs' = errs + 1
           /\ last'.res \in {"Ok", "Io"}
           /\ (last'.res = "Io") <=> (last'.made = Len(calls') - Len(calls))
       /\ (last'.on # "driver" /\ last'.res = "Io") => Refused # {}
       /\ last'.res = KeyMustBeStringOrNumber
        => calls' = calls /\ ret' = KeyMustBeStringOrNumber
       /\ (last'.on = "driver" /\ last'.api = "custom")
        => /\ calls' = calls
           /\ last'.res = custom(last'.n) /\ ret' = custom(last'.n)
           /\ Len(stack') < Len(stack)
           /\ stack' = <<>> \/ stack'[Len(stack')].t = "Compound"
       /\ (last'.on = "driver" /\ last'.api = "propagate")
        => /\ calls' = calls
           /\ last'.res = ret /\ ret' = ret
           /\ Len(stack') < Len(stack)
       /\ last'.res \notin {"Ok", "call"}
        => /\ ret' = last'.res
           /\ Len(stack') <= Len(stack)
           /\ last'.res \in {"Io", KeyMustBeStringOrNumber} \cup
                            {custom(msg) : msg \in IntVals}]_vars

\* the end() of a variant's Compound, refused at its second write
C17_Witness ==
    /\ last.on = "Compound" /\ last.api = "end"
    /\ last.res = "Io" /\ ret = "Io"
    /\ last.made = 2
    /\ Ops(Tail_(calls, 2)) = <<"end_array", "end_object_value">>
    /\ ~calls[Len(calls)].ok /\ calls[Len(calls) - 1].ok

----------------------------------------------------------------------------
----------------------------------------------------------------------------
(* C19: serialize_none, serialize_unit and serialize_unit_struct each make *)
(* exactly one formatter call, write_null, and no other; the three make    *)
(* the same call, so their output is identical; none of them opens a       *)
(* Compound or calls the driver back.                                      *)
NullApis == {"serialize_none", "serialize_unit", "serialize_unit_struct"}

C19_Null ==
    [][(last'.on = "Serializer" /\ last'.api \in NullApis)
        => /\ last'.made = 1
           /\ last'.res \in {"Ok", "Io"}
           /\ Own = <<[Tok("write_null") EXCEPT !.ok = (last'.res = "Ok")]>>
           /\ \A m \in NullApis :
                LET r == Serializer_call(St(Inf), Req(m, FALSE, 0, <<>>))
                IN /\ r.calls = Append(calls, Tok("write_null"))
                   /\ r.stack = stack /\ r.ctl = "ret" /\ r.err = "none"
           /\ Len(stack') < Len(stack)
              \/ (Len(stack') = Len(stack) /\ AtCompound')]_vars

\* a unit struct written as an element of a sequence
C19_Witness ==
    /\ last.on = "Serializer" /\ last.api = "serialize_unit_struct"
    /\ last.res = "Ok" /\ ret = "Ok" /\ last.made = 1
    /\ AtCompound /\ Top.kind \in SeqKinds
    /\ Ops(Tail_(calls, 3)) = <<"begin_array_value", "write_null", "end_array_value">>

----------------------------------------------------------------------------
(* C20: serialize_char(c) makes the formatter calls of serialize_str on    *)
(* the one-character string holding c, and serialize_unit_variant those of *)
(* serialize_str on the variant name: begin_string, the escaped body,      *)
(* end_string (up to the call the sink refuses); neither makes a           *)
(* begin_object, key or value call, nor opens a Compound.                  *)
StrApis == {"serialize_char", "serialize_unit_variant"}

TableOps ==
    {"begin_object", "end_object", "begin_object_key", "end_object_key",
     "begin_object_value", "end_object_value", "begin_array", "end_array",
     "begin_array_value", "end_array_value"}

C20_AsStr ==
    [][(last'.on = "Serializer" /\ last'.api \in StrApis)
        => LET v == IF last'.api = "serialize_char" THEN <<last'.n>> ELSE last'.s
               str == Serializer_call(St(Inf), Req("serialize_str", FALSE, 0, v))
               want == SubSeq(str.calls, Len(calls) + 1, Len(str.calls))
               this == Serializer_call(St(Inf), ThisReq)
           IN /\ want = <<Tok("begin_string"),
                           Call("format_escaped_str_contents", FALSE, 0, v),
                           Tok("end_string")>>
              /\ this.calls = str.calls
              /\ this.stack = stack /\ this.ctl = "ret"
              /\ last'.res \in {"Ok", "Io"}
              /\ last'.res = "Ok" => Own = want
              /\ last'.res = "Io"
                   => /\ last'.made \in 1..Len(want)
                      /\ \A i \in 1..last'.made :
                           Own[i] = [want[i] EXCEPT !.ok = (i < last'.made)]
              /\ \A i \in 1..Len(Own) : Own[i].op \notin TableOps]_vars

\* a unit variant as the whole value: its name, written as a string
C20_Witness ==
    /\ last.on = "Serializer" /\ last.api = "serialize_unit_variant"
    /\ last.res = "Ok" /\ ret = "Ok" /\ Done
    /\ last.s # <<>>
    /\ calls = <<Tok("begin_string"),
                 Call("format_escaped_str_contents", FALSE, 0, last.s),
                 Tok("end_string")>>

----------------------------------------------------------------------------
(* C21: to_writer and to_writer_pretty (to_vec and to_string pass their    *)
(* result on with `?`) return an error when the value contains a mapping   *)
(* with a key that is not a string: a key whose first formatter call is    *)
(* not begin_string.  (A driver that was given an Err and went on without *)
(* returning it is not held against the engine: errs > 0.)                 *)
KeyStarts(cs) == {i \in 1..Len(cs) : cs[i].op = "begin_object_key" /\ cs[i].ok}

NonStringKey(cs) ==
    \E i \in KeyStarts(cs) : i = Len(cs) \/ cs[i + 1].op # "begin_string"

C21_NonStringKeyFails ==
    (Done /\ NonStringKey(calls)) => (ret # "Ok" \/ errs > 0)

----------------------------------------------------------------------------
(* C22: a key failure is not rolled back.  When an error arises while the  *)
(* driver of a key holds the MapKeySerializer (the key is rejected, the    *)
(* sink refuses a write of the key, or the key fails on its own account),  *)
(* serialize_key returns it with the begin_object_key call still in the    *)
(* formatter's log, no end_object_key after it, and the Compound in state  *)
(* Rest; the next serialize_key on this Compound passes first = false.     *)
LastKeyStart(cs) == CHOOSE i \in KeyStarts(cs) : \A j \in KeyStarts(cs) : j <= i

KeyFailed ==
    /\ last.on \in {"MapKeySerializer", "driver"}
    /\ last.api # "propagate"
    /\ last.res \notin {"Ok", "call"}
    /\ AtCompound /\ Top.kind = "SerializeMap"
    /\ KeyStarts(calls) # {}
    /\ \A i \in (LastKeyStart(calls) + 1)..Len(calls) :
          calls[i].op \notin {"end_object_key", "begin_object_value"}

C22_NoRollback ==
    [][/\ (/\ stack # <<>> /\ Top.t = "serialize_key"
            /\ last'.res \notin {"Ok", "call"})
        => LET k == LastKeyStart(calls)
           IN /\ IsPrefix(calls, calls')
              /\ calls'[k].op = "begin_object_key"
              /\ \A i \in (k + 1)..Len(calls') : calls'[i].op # "end_object_key"
              /\ \A i \in (Len(calls) + 1)..Len(calls') :
                   ~calls'[i].ok => i = Len(calls')
              /\ stack' = SubSeq(stack, 1, Len(stack) - 1)
              /\ stack'[Len(stack')].t = "Compound"
              /\ stack'[Len(stack')].state = "Rest"
              /\ ret' \notin {"Ok", "none"}
       /\ (/\ KeyFailed
            /\ last'.on = "Compound"
            /\ last'.api \in {"serialize_key", "serialize_entry"})
        => /\ Top.state = "Rest"
           /\ last'.made = 1
           /\ Own[1].op = "begin_object_key" /\ ~Own[1].b]_vars

\* a mapping whose first key was rejected and whose driver went on to the
\* next key: the second begin_object_key follows the first, with a separator
C22_Witness ==
    /\ last.on = "Compound" /\ last.api = "serialize_key" /\ last.res = "call"
    /\ errs = 1
    /\ Len(calls) >= 3
    /\ calls[Len(calls) - 1] = Call("begin_object_key", TRUE, 0, <<>>)
    /\ calls[Len(calls)] = Call("begin_object_key", FALSE, 0, <<>>)

----------------------------------------------------------------------------
(* C23: one Compound at a time.  A Compound that is not the innermost one  *)
(* keeps its state; a Compound is opened on top of the live ones and the   *)
(* one that is ended or dropped is the one opened last; and the formatter  *)
(* calls of a step are those of the method called followed by those of the *)
(* operations that return in this step, innermost first: an operation that *)
(* stays waiting below a live Compound makes no call.                      *)
\* the frame m of stk is still there in stk2
Kept(stk, stk2, m) ==
    /\ m <= Len(stk) /\ m <= Len(stk2)
    /\ stk2[m].t = stk[m].t
    /\ stk[m].t # "Compound" => stk2[m] = stk[m]

\* the number of frames, from frame m on, that stk and stk2 have in common
RECURSIVE Common(_, _, _)
Common(stk, stk2, m) ==
    IF Kept(stk, stk2, m) THEN 1 + Common(stk, stk2, m + 1) ELSE 0

\* what an operation waiting in a frame emits when its callee has returned Ok
RetOps(f) ==
    CASE f.t \in {"serialize_element", "serialize_value"} ->
             <<IF f.t = "serialize_element"
               THEN "end_array_value" ELSE "end_object_value">>
      [] f.t = "serialize_key" ->
             IF f.entry THEN <<"end_object_key", "begin_object_value">>
             ELSE <<"end_object_key">>
      [] f.t = "serialize_newtype_variant" -> <<"end_object_value", "end_object">>
      [] OTHER -> <<>>

\* the calls of the frames k, k - 1, .. down to d + 1 of stk, as they return
RECURSIVE Returns(_, _, _)
Returns(stk, k, d) ==
    IF k <= d THEN <<>> ELSE RetOps(stk[k]) \o Returns(stk, k - 1, d)

C23_OneCursor ==
    [][\A d \in {Common(stack, stack', 1)} :
          /\ \A m \in 1..Len(stack) :
                stack[m].t = "Compound"
                    => IF m <= d THEN m < Len(stack) => stack'[m] = stack[m]
                       ELSE m = Len(stack)
          /\ \A m \in (d + 1)..Len(stack') :
                stack'[m].t = "Compound"
                    => (m = Len(stack') /\ m = Len(stack) + 1)
          /\ (errs' = errs /\ last'.on # "driver")
                => Ops(SubSeq(calls', Len(calls) + last'.made + 1, Len(calls')))
                     = Returns(stack,
                               IF AtCompound /\ last'.api = "end"
                               THEN Len(stack) - 1 ELSE Len(stack),
                               d)]_vars

\* a sequence nested in a sequence has just been ended: the outer one, which
\* stayed in state Rest and silent meanwhile, closes its element
C23_Witness ==
    /\ last.on = "Compound" /\ last.api = "end" /\ last.res = "Ok"
    /\ Len(stack) = 2 /\ AtCompound /\ Top.state = "Rest"
    /\ errs = 0
    /\ Len(calls) >= 6
    /\ Ops(Tail_(calls, 2)) = <<"end_array", "end_array_value">>
    /\ Cardinality(ElementStarts(calls)) = 2

----------------------------------------------------------------------------
(* C24: a declared length other than Some(0) is not used.  Opening a       *)
(* sequence, tuple, tuple struct, mapping or struct with such a length     *)
(* makes the calls, and returns the Compound, of opening it with unknown   *)
(* length, so that whatever is fed afterwards is written alike; such a     *)
(* Compound never becomes Empty, however many elements it is fed, and its  *)
(* end() emits the one closing delimiter: the output is balanced.          *)
UnknownLen(api) ==
    LET m == IF api \in {"serialize_map", "serialize_struct"}
             THEN serialize_map(St(Inf), None)
             ELSE serialize_seq(St(Inf), None)
    IN As(m, CASE api = "serialize_tuple" -> "SerializeTuple"
               [] api = "serialize_tuple_struct" -> "SerializeTupleStruct"
               [] api = "serialize_struct" -> "SerializeStruct"
               [] api = "serialize_map" -> "SerializeMap"
               [] OTHER -> "SerializeSeq")

C24_LenNotUsed ==
    [][/\ (/\ last'.on = "Serializer" /\ last'.api \in PlainOpens
            /\ last'.n # Some(0) /\ last'.res = "Ok")
        => /\ calls' = UnknownLen(last'.api).calls
           /\ stack' = UnknownLen(last'.api).stack
           /\ stack'[Len(stack')].state = "First"
       /\ \A m \in 1..Len(stack) :
            (/\ m <= Len(stack')
             /\ stack[m].t = "Compound" /\ stack'[m].t = "Compound"
             /\ stack[m].state # "Empty")
            => stack'[m].state # "Empty"
       /\ (/\ AtCompound /\ Top.state # "Empty" /\ Top.kind \notin VariantKinds
            /\ last'.on = "Compound" /\ last'.api = "end" /\ last'.res = "Ok")
        => /\ last'.made = 1
           /\ Own[1].op = (IF Top.kind \in SeqKinds
                           THEN "end_array" ELSE "end_object")]_vars

\* a sequence declared to hold one element and not fed yet
C24_Witness ==
    /\ last.on = "Serializer" /\ last.api = "serialize_seq" /\ last.res = "Ok"
    /\ last.n = Some(1)
    /\ AtCompound /\ Top.kind = "SerializeSeq" /\ Top.state = "First"
    /\ calls[Len(calls)].op = "begin_array"

----------------------------------------------------------------------------
====
